---------------------------- MODULE Spec2Model ----------------------------
(***************************************************************************)
(* Model of the OpenCensus instrumentation for Gin and Gorm:               *)
(*   pkg/ocgin  - Handler.HandlerFunc, the tracking response writer and    *)
(*                the route tag propagator (WithRouteTag);                 *)
(*   pkg/ocgorm - the before/after callbacks and the pool stats poller     *)
(*                (RecordStats).                                           *)
(* Five specifications share the module: Spec (the HTTP middleware),       *)
(* SpecGorm (the data-access callbacks), SpecPoller (RecordStats), SpecApp *)
(* (a request whose handler works on the database) and SpecBare (tagged    *)
(* handlers on an engine without the middleware).                          *)
(***************************************************************************)
EXTENDS Integers, Sequences, FiniteSets, TLC

VARIABLES
    load,       \* the request mix the clients send in this behaviour
    cfg,        \* the Handler's fields: IsPublicEndpoint, StartOptions.Sampler
    req,        \* per serving goroutine: the request in flight and its objects
    views,      \* the aggregated server views (count and sum per measure)
    hist,       \* history of what the served chains did (bytes written, sizes)
    spanSeq,    \* number of trace ids drawn by trace.StartSpan so far
    router,     \* the traced router group and the route registered on it
    gcfg,       \* the callbacks struct: allowRoot, query, defaultAttributes
    scopes,     \* the gorm scope of each data-access operation
    queryCount, \* the query counter view, by operation and table tag
    db,         \* the values of the *gorm.DB handle the application shares
    poller,     \* the polling goroutine of RecordStats
    ticker,     \* its time.Ticker: a tick waiting in ticker.C, Stop called
    done,       \* the done channel
    closeOnce,  \* the sync.Once of the stop function
    stoppers,   \* the goroutines calling the stop function
    pool,       \* the sql.DB connection pool
    gauges      \* the pool measurements recorded so far

httpVars == <<load, cfg, req, views, hist, spanSeq, router>>
gormVars == <<gcfg, scopes, queryCount, db>>
pollerVars == <<poller, ticker, done, closeOnce, stoppers, pool, gauges>>
vars == <<httpVars, gormVars, pollerVars>>

-----------------------------------------------------------------------------
(* Bounds *)

\* requests served one after the other in the sequence mix
MaxRequests == 2
\* bytes the chain of one request writes at most
MaxBytes == 2
\* additional invocations of track.end beside the deferred one
MaxExtraEnds == 1
\* handlers registered for one route
MaxChain == 2
\* nesting depth of the traced router groups
MaxDepth == 2
\* ticks the ticker delivers in one behaviour
MaxTicks == 2
\* calls of the stop function by one goroutine
MaxStopCalls == 2
\* connections the pool opens at most
MaxOpen == 1

-----------------------------------------------------------------------------
(* Values *)

\* gin.responseWriter: size before anything was written, and the status
\* the writer reports before WriteHeader is called
NoWritten == -1
DefaultStatus == 200

Paths == {"/healthz", "/_ah/health", "/metrics", "/healthz/", "/a/b/c"}
StatusCodes == {200, 204, 401, 403, 429, 500}
WriteSizes == 0..MaxBytes
Samplers == {"default", "always", "never"}

\* route names and path patterns are sequences of path segments; a trailing
\* slash is a last empty segment ("/a/" is <<"a", "">>)
NoRoute == <<"<untagged>">>
Routes == {<<"a", "">>, <<"a", ":b", ":c">>}
\* c.HandlerName(): the name of the chain's main handler function
HandlerName == <<"main.handler">>
\* relative paths handed to tracedRouterGroup.Group
GroupSegments == {"api", ":tenant"}

NoSC == [ok |-> FALSE, traceId |-> <<"none", 0>>, spanId |-> <<"none", 0>>]
\* what extractSpanContext returns for the inbound headers
Inbound == {NoSC, [ok |-> TRUE, traceId |-> <<"remote", 1>>, spanId |-> <<"remote", 7>>]}

\* request bodies: nil (no body object), or a body with its ContentLength
\* (-1: not set)
Bodies == {[nil |-> TRUE, contentLength |-> 0],
           [nil |-> FALSE, contentLength |-> 0],
           [nil |-> FALSE, contentLength |-> 2],
           [nil |-> FALSE, contentLength |-> -1]}

\* GetStartOptions was not called for the request
NoStartOptions == "none"

NoSpan == [exists |-> FALSE, traceId |-> <<"none", 0>>, parent |-> NoSC,
           remoteParent |-> FALSE, links |-> << >>, kind |-> "none",
           sampler |-> "none", status |-> "unset", statusAttr |-> 0,
           ends |-> 0]

IdleReq == [pc |-> "idle", path |-> "", body |-> [nil |-> TRUE, contentLength |-> 0],
            inbound |-> NoSC, handlers |-> << >>, idx |-> 0, aborted |-> FALSE,
            panicking |-> FALSE, wStatus |-> DefaultStatus, wSize |-> NoWritten,
            written |-> 0, ctxSpan |-> FALSE, ctxAcc |-> FALSE,
            trackSpan |-> FALSE, trackRoute |-> << >>, reqSize |-> 0,
            tags |-> << >>, span |-> NoSpan, emitted |-> << >>,
            onceDone |-> FALSE, extraEnds |-> 0, seenSpan |-> FALSE,
            invoked |-> {}, statusSet |-> FALSE, counted |-> << >>,
            startOpts |-> NoStartOptions, start |-> 0, calls |-> 0]

-----------------------------------------------------------------------------
(* pkg/ocgin: pure helpers *)

\* variant: the metrics path is missing from the list
isHealthEndpointOnly(path) ==
    path = "/healthz" \/ path = "/_ah/health"

\* trace.go: the fixed list of paths that are never traced
isHealthOrMetricsEndpoint(path) ==
    path = "/healthz" \/ path = "/_ah/health" \/ path = "/metrics"

\* trace.StartSpanWithRemoteParent: the span continues the inbound trace
StartSpanWithRemoteParent(sc, sampler) ==
    [NoSpan EXCEPT !.exists = TRUE, !.traceId = sc.traceId, !.parent = sc,
                   !.remoteParent = TRUE, !.kind = "server", !.sampler = sampler]

\* trace.StartSpan on a context that carries no span: a new root span with a
\* freshly drawn trace id
StartSpan(seq, sampler) ==
    [NoSpan EXCEPT !.exists = TRUE, !.traceId = <<"gen", seq>>,
                   !.kind = "server", !.sampler = sampler]

AddLink(span, sc) == [span EXCEPT !.links = Append(@, sc)]

\* variant: the sampler of the static StartOptions is used whatever
\* GetStartOptions returns
StartOptsStatic(h, perRequest) == h.sampler

\* Handler.startTrace, lines 85-88: the start options of the request are
\* those GetStartOptions returns when it is set, else h.StartOptions
StartOpts(h, perRequest) ==
    IF h.getStartOptions THEN perRequest ELSE h.sampler

\* variant: startStats runs before startTrace, on a context without the span
TrackContextBeforeTrace(traced) == FALSE

\* HandlerFunc, lines 63-65 with startTrace line 111 and startStats lines
\* 123-130: whether the context the tracker keeps carries the request's span
TrackContext(traced) == traced

\* variant: the inbound context becomes the parent on a public endpoint too
StartTraceSpanTrusting(h, startOpts, sc, seq) ==
    IF sc.ok
    THEN StartSpanWithRemoteParent(sc, startOpts)
    ELSE StartSpan(seq, startOpts)

\* Handler.startTrace, lines 90-109: parent or link, by IsPublicEndpoint
StartTraceSpan(h, startOpts, sc, seq) ==
    IF sc.ok /\ ~h.isPublicEndpoint
    THEN StartSpanWithRemoteParent(sc, startOpts)
    ELSE LET span == StartSpan(seq, startOpts)
         IN  IF sc.ok THEN AddLink(span, sc) ELSE span

\* Handler.startStats, lines 133-138: the request size kept by the tracker
RequestSize(body) ==
    IF body.nil THEN -1
    ELSE IF body.contentLength > 0 THEN body.contentLength
    ELSE 0

\* variant: every failure maps to UNKNOWN
TraceStatusCoarse(status) ==
    IF status < 200 \/ status >= 400 THEN "UNKNOWN" ELSE "OK"

\* ochttp.TraceStatus as the repository's test table pins it down
TraceStatus(status) ==
    CASE status = 401 -> "UNAUTHENTICATED"
      [] status = 403 -> "PERMISSION_DENIED"
      [] status = 404 -> "NOT_FOUND"
      [] status = 429 -> "RESOURCE_EXHAUSTED"
      [] OTHER -> IF status < 200 \/ status >= 400 THEN "UNKNOWN" ELSE "OK"

RECURSIVE ApplyRouteTags(_, _)
\* tag.Upsert(KeyServerRoute, v) applied in order over the tag map of t.ctx
ApplyRouteTags(route, mutators) ==
    IF mutators = << >> THEN route
    ELSE ApplyRouteTags(Head(mutators), Tail(mutators))

\* variant: end without the one-shot guard
EndUnguarded(q) == TRUE

\* sync.Once: whether Do runs the function it is given
EndOnceFires(q) == ~q.onceDone

\* variant: the tracker's context carries no span, only stats are recorded
EndBodyStatsOnly(q, tags) ==
    LET status == IF q.wStatus = 0 THEN 200 ELSE q.wStatus
        m == [route |-> ApplyRouteTags(q.trackRoute, tags),
              tags |-> tags,
              status |-> status,
              respBytes |-> q.wSize,
              hasReqBytes |-> q.reqSize >= 0,
              reqBytes |-> q.reqSize,
              start |-> q.start]
    IN  [q EXCEPT !.emitted = Append(@, m), !.onceDone = TRUE]

\* variant: the completion fails before it records when its context has no
\* span
EndBodyNeedsSpan(q, tags) ==
    LET status == IF q.wStatus = 0 THEN 200 ELSE q.wStatus
        m == [route |-> ApplyRouteTags(q.trackRoute, tags),
              tags |-> tags,
              status |-> status,
              respBytes |-> q.wSize,
              hasReqBytes |-> q.reqSize >= 0,
              reqBytes |-> q.reqSize,
              start |-> q.start]
    IN  IF q.trackSpan
        THEN [q EXCEPT !.span = [@ EXCEPT !.status = TraceStatus(status),
                                          !.statusAttr = status],
                       !.emitted = Append(@, m),
                       !.onceDone = TRUE]
        ELSE [q EXCEPT !.onceDone = TRUE]

\* the function trackingResponseWriter.end hands to endOnce.Do
EndBody(q, tags) ==
    LET status == IF q.wStatus = 0 THEN 200 ELSE q.wStatus
        m == [route |-> ApplyRouteTags(q.trackRoute, tags),
              tags |-> tags,
              status |-> status,
              respBytes |-> q.wSize,
              hasReqBytes |-> q.reqSize >= 0,
              reqBytes |-> q.reqSize,
              start |-> q.start]
    IN  [q EXCEPT !.span = IF q.trackSpan
                           THEN [@ EXCEPT !.status = TraceStatus(status),
                                          !.statusAttr = status]
                           ELSE @,
                  !.emitted = Append(@, m),
                  !.onceDone = TRUE]

\* trackingResponseWriter.end
End(q, tags) == IF EndOnceFires(q) THEN EndBody(q, tags) ELSE q

\* stats.RecordWithTags of end's measurements into the server views
RecordEnd(v, before, after) ==
    IF Len(after.emitted) = Len(before.emitted) THEN v
    ELSE LET m == after.emitted[Len(after.emitted)]
         IN  [v EXCEPT !.latencyCount = @ + 1,
                       !.respCount = @ + 1,
                       !.respSum = @ + m.respBytes,
                       !.reqCount = IF m.hasReqBytes THEN @ + 1 ELSE @,
                       !.reqSum = IF m.hasReqBytes THEN @ + m.reqBytes ELSE @]

NonEmptySegment(seg) == seg # ""

\* gin's joinPaths, by which RouterGroup.Group computes the new base path:
\* path.Join drops empty segments, a trailing slash of relativePath is kept
JoinPaths(absolutePath, relativePath) ==
    IF relativePath = << >> THEN absolutePath
    ELSE LET finalPath == SelectSeq(absolutePath \o relativePath, NonEmptySegment)
         IN  IF relativePath[Len(relativePath)] = ""
             THEN finalPath \o <<"">>
             ELSE finalPath

\* the route name tracedRouterGroup.Handle / Any / GET ... hand to
\* AllWithRouteTag for a route registered on group g
RegisteredRouteTag(g, relativePath) == relativePath

\* NewTracedRouter(engine): the root group, nothing registered
RootRouter == [base |-> << >>, registered |-> FALSE, rel |-> << >>, tag |-> NoRoute]

\* AllWithRouteTag(route, handlers...): every handler of the chain is wrapped
RegisteredChains(g) == {[i \in 1..n |-> g.tag] : n \in 1..MaxChain}

\* the handler chains a route is registered with: every tagged handler of
\* one chain carries the route pattern of that registration
Chains ==
    UNION {{ch \in [1..n -> {NoRoute} \cup Routes] :
               \A i, j \in 1..n :
                   (ch[i] # NoRoute /\ ch[j] # NoRoute) => ch[i] = ch[j]} :
           n \in 1..MaxChain}

-----------------------------------------------------------------------------
(* The request mixes explored.  Requests meet only in the views, so each    *)
(* mix varies some of the inputs and holds the others.                      *)

\* a Handler: IsPublicEndpoint, the sampler of StartOptions, and whether
\* GetStartOptions is set
Configs == [isPublicEndpoint : BOOLEAN, sampler : Samplers,
            getStartOptions : {FALSE}]
PlainBody == [nil |-> FALSE, contentLength |-> 2]

\* one request: every path, inbound header and configuration
TraceMix == [requests |-> 1, traced |-> FALSE, cfgs |-> Configs, paths |-> Paths,
             inbound |-> Inbound, bodies |-> {PlainBody},
             chains |-> {<<NoRoute>>}, goroutines |-> {"g1"}, middleware |-> TRUE,
             startOpts |-> Samplers, codes |-> StatusCodes, sizes |-> WriteSizes]

\* one request: every chain registered for the route
RouteMix == [requests |-> 1, traced |-> FALSE,
             cfgs |-> {[isPublicEndpoint |-> FALSE, sampler |-> "default",
                        getStartOptions |-> FALSE]},
             paths |-> {"/a/b/c"}, inbound |-> {NoSC},
             bodies |-> {[nil |-> TRUE, contentLength |-> 0]},
             chains |-> Chains, goroutines |-> {"g1"}, middleware |-> TRUE,
             startOpts |-> Samplers, codes |-> StatusCodes, sizes |-> WriteSizes]

\* a sequence of requests: every body, as TestHandlerStatsCollection sends
SequenceMix == [requests |-> MaxRequests, traced |-> FALSE,
                cfgs |-> {[isPublicEndpoint |-> FALSE, sampler |-> "never",
                          getStartOptions |-> FALSE]},
                paths |-> {"/a/b/c"}, inbound |-> {NoSC},
                bodies |-> Bodies, chains |-> {<<NoRoute>>},
                goroutines |-> {"g1"}, middleware |-> TRUE, startOpts |-> Samplers,
                codes |-> StatusCodes, sizes |-> WriteSizes]

\* one request to a route registered on a traced router group
RouterMix == [requests |-> 1, traced |-> TRUE,
              cfgs |-> {[isPublicEndpoint |-> FALSE, sampler |-> "default",
                        getStartOptions |-> FALSE]},
              paths |-> {"/a/b/c"}, inbound |-> {NoSC},
              bodies |-> {[nil |-> TRUE, contentLength |-> 0]},
              chains |-> {<<NoRoute>>}, goroutines |-> {"g1"}, middleware |-> TRUE,
              startOpts |-> Samplers, codes |-> StatusCodes, sizes |-> WriteSizes]

\* one request: every static sampler, with GetStartOptions nil or set and
\* returning any sampler for the request
SamplerMix == [requests |-> 1, traced |-> FALSE,
               cfgs |-> [isPublicEndpoint : {FALSE}, sampler : Samplers,
                         getStartOptions : BOOLEAN],
               paths |-> {"/a/b/c"}, inbound |-> {NoSC},
               bodies |-> {PlainBody}, chains |-> {<<NoRoute>>},
               goroutines |-> {"g1"}, middleware |-> TRUE, startOpts |-> Samplers,
               codes |-> {500}, sizes |-> {MaxBytes}]

\* two requests served at the same time by two goroutines, each to a route
\* with one tagged handler
ConcurrentMix == [requests |-> 2, traced |-> FALSE,
                  cfgs |-> {[isPublicEndpoint |-> FALSE, sampler |-> "default",
                             getStartOptions |-> FALSE]},
                  paths |-> {"/a/b/c"}, inbound |-> {NoSC},
                  bodies |-> {PlainBody},
                  chains |-> {<<route>> : route \in Routes},
                  goroutines |-> {"g1", "g2"}, middleware |-> TRUE, startOpts |-> Samplers,
                  codes |-> {500}, sizes |-> {MaxBytes}]

\* one request whose handler works on the database while it is served
AppMix == [requests |-> 1, traced |-> FALSE,
           cfgs |-> {[isPublicEndpoint |-> FALSE, sampler |-> "default",
                      getStartOptions |-> FALSE]},
           paths |-> {"/a/b/c"}, inbound |-> {NoSC},
           bodies |-> {PlainBody}, chains |-> {<<NoRoute>>},
           goroutines |-> {"g1"}, middleware |-> TRUE, startOpts |-> Samplers,
           codes |-> {204, 500}, sizes |-> {MaxBytes}]

\* one request to an engine that does not use the middleware: the chain of
\* the route runs on gin's own context and writer
BareMix == [requests |-> 1, traced |-> FALSE,
            cfgs |-> {[isPublicEndpoint |-> FALSE, sampler |-> "default",
                       getStartOptions |-> FALSE]},
            paths |-> {"/a/b/c"}, inbound |-> {NoSC},
            bodies |-> {PlainBody}, chains |-> Chains,
            goroutines |-> {"g1"}, middleware |-> FALSE,
            startOpts |-> Samplers, codes |-> StatusCodes, sizes |-> WriteSizes]

Workloads == {TraceMix, RouteMix, SequenceMix, RouterMix, SamplerMix,
              ConcurrentMix}

-----------------------------------------------------------------------------
(* pkg/ocgin: Handler.HandlerFunc around the downstream chain *)

\* the goroutines serving requests; the mix says which of them serve
Goroutines == {"g1", "g2"}

InFlight(r) == req[r].pc \notin {"idle", "done"}

\* tracedRouterGroup.Group: a nested group under the current one
RouterGroup ==
    /\ load.traced
    /\ ~router.registered
    /\ Len(router.base) < MaxDepth
    /\ \E seg \in GroupSegments :
        router' = [router EXCEPT !.base = JoinPaths(@, <<seg>>)]
    /\ UNCHANGED <<gormVars, pollerVars, load, cfg, req, views, hist, spanSeq>>

\* tracedRouterGroup.Handle (Any, GET, ...): the route is registered with its
\* handlers wrapped by AllWithRouteTag
RouterHandle ==
    /\ load.traced
    /\ ~router.registered
    /\ \E relativePath \in Routes :
        router' = [router EXCEPT !.registered = TRUE, !.rel = relativePath,
                                 !.tag = RegisteredRouteTag(router, relativePath)]
    /\ UNCHANGED <<gormVars, pollerVars, load, cfg, req, views, hist, spanSeq>>

\* Handler.startStats, line 139: ServerRequestCount.M(1) recorded on the
\* context of line 123 (route tag: the handler name), with no status tag
RequestCountMeasurement ==
    [route |-> HandlerName, tags |-> << >>, hasStatus |-> FALSE, status |-> 0]

\* HandlerFunc up to c.Next(): startTrace, startStats, bind the accumulator
HandlerFuncEnter(r) ==
    /\ req[r].pc \in {"idle", "done"}
    /\ r \in load.goroutines
    /\ load.middleware
    /\ views.requestCount < load.requests
    /\ load.traced => router.registered
    /\ \E path \in load.paths, body \in load.bodies, sc \in load.inbound,
          chain \in (IF load.traced THEN RegisteredChains(router)
                     ELSE load.chains),
          perRequest \in (IF cfg.getStartOptions THEN load.startOpts
                          ELSE {NoStartOptions}) :
        LET traced == ~isHealthOrMetricsEndpoint(path)
            newRoot == traced /\ ~(sc.ok /\ ~cfg.isPublicEndpoint)
            startOpts == StartOpts(cfg, perRequest)
            span == IF traced
                    THEN StartTraceSpan(cfg, startOpts, sc, spanSeq + 1)
                    ELSE NoSpan
        IN  /\ req' = [req EXCEPT ![r] =
                    [IdleReq EXCEPT !.pc = "chain", !.path = path, !.body = body,
                                    !.inbound = sc, !.handlers = chain, !.idx = 1,
                                    !.span = span,
                                    !.ctxSpan = traced,
                                    !.trackSpan = TrackContext(traced),
                                    !.startOpts = IF traced THEN perRequest
                                                  ELSE NoStartOptions,
                                    !.start = views.requestCount + 1,
                                    !.trackRoute = HandlerName,
                                    !.reqSize = RequestSize(body),
                                    !.counted = <<RequestCountMeasurement>>,
                                    !.ctxAcc = TRUE]]
            /\ spanSeq' = IF newRoot THEN spanSeq + 1 ELSE spanSeq
    /\ views' = [views EXCEPT !.requestCount = @ + 1]
    /\ UNCHANGED <<gormVars, pollerVars, router, load, cfg, hist>>

\* gin serves a request on an engine without the middleware: the chain of
\* the route starts on a request context that holds no span and no accumulator
EngineDispatch(r) ==
    /\ req[r].pc = "idle"
    /\ r \in load.goroutines
    /\ ~load.middleware
    /\ \E path \in load.paths, body \in load.bodies, chain \in load.chains :
        req' = [req EXCEPT ![r] =
            [IdleReq EXCEPT !.pc = "chain", !.path = path, !.body = body,
                            !.handlers = chain, !.idx = 1]]
    /\ UNCHANGED <<gormVars, pollerVars, router, load, cfg, views, hist, spanSeq>>

\* gin's c.Next() invokes the next handler of the chain; a handler produced
\* by WithRouteTag calls the wrapped handler first
ChainNext(r) ==
    /\ req[r].pc = "chain"
    /\ ~req[r].aborted
    /\ req[r].idx <= Len(req[r].handlers)
    /\ req' = [req EXCEPT ![r].pc = "handler",
                          ![r].calls = @ + 1,
                          ![r].seenSpan = @ \/ req[r].ctxSpan,
                          ![r].invoked = @ \cup {req[r].handlers[req[r].idx]}]
    /\ UNCHANGED <<gormVars, pollerVars, router, load, cfg, views, hist, spanSeq>>

\* gin.ResponseWriter.WriteHeader called by the handler
HandlerWriteHeader(r) ==
    /\ req[r].pc = "handler"
    /\ \E code \in load.codes :
        /\ code # req[r].wStatus
        /\ req' = [req EXCEPT ![r].wStatus = code, ![r].statusSet = TRUE]
    /\ UNCHANGED <<gormVars, pollerVars, router, load, cfg, views, hist, spanSeq>>

\* gin.ResponseWriter.Write called by the handler: WriteHeaderNow, then the
\* size grows by the bytes written
HandlerWrite(r) ==
    /\ req[r].pc = "handler"
    /\ \E n \in load.sizes :
        /\ req[r].written + n <= MaxBytes
        /\ req' = [req EXCEPT ![r].wSize = (IF @ = NoWritten THEN 0 ELSE @) + n,
                              ![r].written = @ + n]
    /\ UNCHANGED <<gormVars, pollerVars, router, load, cfg, views, hist, spanSeq>>

\* c.Abort() called by the handler: no later handler of the chain runs
HandlerAbort(r) ==
    /\ req[r].pc = "handler"
    /\ ~req[r].aborted
    /\ req' = [req EXCEPT ![r].aborted = TRUE]
    /\ UNCHANGED <<gormVars, pollerVars, router, load, cfg, views, hist, spanSeq>>

\* variant: the accumulator is taken from the context without the check
AssumeAccumulator(q) == TRUE

\* taggedHandlerFunc.HandlerFunc, line 150: the checked type assertion on
\* the value the request context holds under addedTagsKey
HasAccumulator(q) == q.ctxAcc

\* variant: the tags the handler returns are dropped
AppendNoTag(q) == q.tags

\* the accumulator after taggedHandlerFunc.HandlerFunc got the tags back from
\* the handler WithRouteTag built
AppendRouteTag(q) ==
    IF q.handlers[q.idx] # NoRoute /\ HasAccumulator(q)
    THEN Append(q.tags, q.handlers[q.idx])
    ELSE q.tags

\* the handler returns; taggedHandlerFunc.HandlerFunc appends its tags
HandlerReturn(r) ==
    /\ req[r].pc = "handler"
    /\ req' = [req EXCEPT ![r].pc = "chain",
                          ![r].tags = AppendRouteTag(req[r]),
                          ![r].idx = @ + 1]
    /\ UNCHANGED <<gormVars, pollerVars, router, load, cfg, views, hist, spanSeq>>

\* the handler panics: the stack unwinds through HandlerFunc's deferred calls
HandlerPanic(r) ==
    /\ req[r].pc = "handler"
    /\ req' = [req EXCEPT ![r].pc = IF load.middleware THEN "deferStats"
                                  ELSE "served",
                          ![r].panicking = TRUE]
    /\ UNCHANGED <<gormVars, pollerVars, router, load, cfg, views, hist, spanSeq>>

\* c.Next() returns to HandlerFunc: the chain is exhausted or was aborted
ChainReturn(r) ==
    /\ req[r].pc = "chain"
    /\ (req[r].aborted \/ req[r].idx > Len(req[r].handlers))
    /\ req' = [req EXCEPT ![r].pc = IF load.middleware THEN "deferStats"
                                  ELSE "served"]
    /\ UNCHANGED <<gormVars, pollerVars, router, load, cfg, views, hist, spanSeq>>

\* variant: one accumulator is shared by the requests in flight
AccumulatorShared(r) ==
    LET others == {g \in Goroutines \ {r} : InFlight(g)}
    IN  IF others = {} THEN req[r].tags
        ELSE req[r].tags \o req[CHOOSE g \in others : TRUE].tags

\* HandlerFunc, lines 62-66: `var tags addedTags` is a local of the call,
\* bound into the request's context and handed to statsEnd
AccumulatorOf(r) == req[r].tags

\* deferred statsEnd(&tags)
DeferStatsEnd(r) ==
    /\ req[r].pc = "deferStats"
    /\ LET q == [End(req[r], AccumulatorOf(r)) EXCEPT !.pc = "deferTrace"]
       IN  /\ req' = [req EXCEPT ![r] = q]
           /\ views' = RecordEnd(views, req[r], q)
    /\ UNCHANGED <<gormVars, pollerVars, router, load, cfg, hist, spanSeq>>

\* the end function startTrace returned: span.End, or the no-op
TraceEnd(q) ==
    IF q.span.exists THEN [q EXCEPT !.span.ends = @ + 1] ELSE q

\* deferred traceEnd(); HandlerFunc returns
DeferTraceEnd(r) ==
    /\ req[r].pc = "deferTrace"
    /\ req' = [req EXCEPT ![r] = [TraceEnd(req[r]) EXCEPT !.pc = "done"]]
    /\ hist' = [hist EXCEPT !.served = @ + 1,
                            !.sumWritten = @ + req[r].written,
                            !.sumReqSize = @ + (IF req[r].body.contentLength > 0
                                                THEN req[r].body.contentLength ELSE 0)]
    /\ UNCHANGED <<gormVars, pollerVars, router, load, cfg, views, spanSeq>>

\* track.end triggered once more after the deferred call
ExtraEnd(r) ==
    /\ req[r].pc \in {"deferTrace", "done"}
    /\ req[r].extraEnds < MaxExtraEnds
    /\ LET q == [End(req[r], AccumulatorOf(r)) EXCEPT !.extraEnds = @ + 1]
       IN  /\ req' = [req EXCEPT ![r] = q]
           /\ views' = RecordEnd(views, req[r], q)
    /\ UNCHANGED <<gormVars, pollerVars, router, load, cfg, hist, spanSeq>>

InitHTTPUnder(mixes) ==
    /\ load \in mixes
    /\ cfg \in load.cfgs
    /\ req = [r \in Goroutines |-> IdleReq]
    /\ views = [requestCount |-> 0, latencyCount |-> 0, respCount |-> 0,
                respSum |-> 0, reqCount |-> 0, reqSum |-> 0]
    /\ hist = [served |-> 0, sumWritten |-> 0, sumReqSize |-> 0]
    /\ spanSeq = 0
    /\ router = RootRouter

InitHTTP == InitHTTPUnder(Workloads)

-----------------------------------------------------------------------------
(* pkg/ocgorm: the before/after callbacks *)

Ops == {"create", "query", "update", "delete"}
Tables == {"people", "orders"}
NoErr == ""
ErrRecordNotFound == "record not found"
OpErrors == {NoErr, ErrRecordNotFound, "Error 1062: Duplicate entry"}

NoTags == [operation |-> "", table |-> ""]
\* a context.Context as the callbacks use it: the span and the tag map in it
BackgroundCtx == [span |-> "none", tags |-> NoTags]
\* the contexts a caller hands to WithContext: without and with a span of
\* the request
CallerCtxs == {BackgroundCtx, [span |-> "request", tags |-> NoTags]}

NoOpSpan == [exists |-> FALSE, name |-> "", parent |-> "none", kind |-> "none",
             attrs |-> << >>, status |-> [code |-> "unset", message |-> ""],
             ends |-> 0]

NewScope == [pc |-> "new", op |-> "", table |-> "", sql |-> "",
             hasCtx |-> FALSE, ctx |-> BackgroundCtx, traceCtx |-> BackgroundCtx,
             parentSpan |-> "none", attached |-> FALSE,
             hasSpan |-> FALSE, span |-> NoOpSpan,
             err |-> NoErr, recorded |-> << >>]

\* the backing array of the default attribute slice behind its length,
\* where the slice has spare capacity: nothing written yet
NoBacking == [table |-> << >>, query |-> << >>]

\* the data-access operations in progress, each on a scope of its own
ScopeIds == {"op1", "op2"}

\* variant: no error is classified as record-not-found
IsRecordNotFoundNever(err) == FALSE

\* gorm.IsRecordNotFoundError
IsRecordNotFoundError(err) == err = ErrRecordNotFound

\* the attribute keys of pkg/ocgorm/trace.go and callbacks.go
TableAttribute == "gorm.table"
QueryAttribute == "gorm.query"

\* variant: the query text is attached whatever the flag says
SpanAttributesWithQuery(c, scope) ==
    c.defaultAttributes
        \o <<[key |-> TableAttribute, value |-> scope.table]>>
        \o <<[key |-> QueryAttribute, value |-> scope.sql]>>

\* callbacks.startTrace, the attributes of the span: the default ones, the
\* table, and the query text when the query option is set
SpanAttributes(c, scope) ==
    c.defaultAttributes
        \o <<[key |-> TableAttribute, value |-> scope.table]>>
        \o (IF c.query
            THEN <<[key |-> QueryAttribute, value |-> scope.sql]>>
            ELSE << >>)

\* variant: a root span is created whether or not allowRoot is set
StartTraceAlwaysRoot(c, ctx, scope, operation) ==
    LET name == <<"gorm", operation>>
        started ==
            IF ctx.span = "none"
            THEN [NoOpSpan EXCEPT !.exists = TRUE, !.name = name,
                                  !.kind = "client"]
            ELSE [NoOpSpan EXCEPT !.exists = TRUE, !.name = name,
                                  !.parent = ctx.span, !.kind = "unspecified"]
        attributes == SpanAttributes(c, scope)
    IN  [scope |-> [scope EXCEPT !.hasSpan = TRUE,
                                 !.span = [started EXCEPT !.attrs = attributes]],
         ctx |-> IF ctx.span = "none"
                 THEN [BackgroundCtx EXCEPT !.span = "gorm"]
                 ELSE ctx]

\* callbacks.startTrace: the scope with the span it stored, and the context
\* it returns
StartTrace(c, ctx, scope, operation) ==
    IF ctx.span = "none" /\ ~c.allowRoot
    THEN [scope |-> scope, ctx |-> ctx]
    ELSE LET name == <<"gorm", operation>>
             started ==
                 IF ctx.span = "none"
                 THEN [NoOpSpan EXCEPT !.exists = TRUE, !.name = name,
                                       !.kind = "client"]
                 ELSE [NoOpSpan EXCEPT !.exists = TRUE, !.name = name,
                                       !.parent = ctx.span, !.kind = "unspecified"]
             attributes == SpanAttributes(c, scope)
         IN  [scope |-> [scope EXCEPT !.hasSpan = TRUE,
                                      !.span = [started EXCEPT !.attrs = attributes]],
              ctx |-> IF ctx.span = "none"
                      THEN [BackgroundCtx EXCEPT !.span = "gorm"]
                      ELSE ctx]

\* variant: the table tag is left out
StartStatsOperationOnly(ctx, scope, operation) ==
    [ctx EXCEPT !.tags = [operation |-> operation, table |-> ""]]

\* callbacks.startStats: tag.New with the operation and the table
StartStats(ctx, scope, operation) ==
    [ctx EXCEPT !.tags = [operation |-> operation, table |-> scope.table]]

\* variant: a record-not-found error is taken off the operation once the
\* span has its status
EndTraceClearsNotFound(scope) ==
    IF ~scope.hasSpan THEN scope
    ELSE LET status ==
                 IF scope.err # NoErr
                 THEN [code |-> IF IsRecordNotFoundError(scope.err)
                                THEN "NOT_FOUND" ELSE "UNKNOWN",
                       message |-> scope.err]
                 ELSE [code |-> "OK", message |-> ""]
         IN  [scope EXCEPT !.span.status = status, !.span.ends = @ + 1,
                           !.err = IF IsRecordNotFoundError(@) THEN NoErr ELSE @]

\* callbacks.endTrace
EndTrace(scope) ==
    IF ~scope.hasSpan THEN scope
    ELSE LET status ==
                 IF scope.err # NoErr
                 THEN [code |-> IF IsRecordNotFoundError(scope.err)
                                THEN "NOT_FOUND" ELSE "UNKNOWN",
                       message |-> scope.err]
                 ELSE [code |-> "OK", message |-> ""]
         IN  [scope EXCEPT !.span.status = status, !.span.ends = @ + 1]

\* variant: the counter is recorded for operations with a span only
EndStatsRecordsTracedOnly(scope) ==
    scope.err = NoErr /\ scope.hasCtx /\ scope.hasSpan

\* callbacks.endStats: whether QueryCount.M(1) is recorded
EndStatsRecords(scope) == scope.err = NoErr /\ scope.hasCtx

\* the values of a handle on which no context was set
NoValues == [hasCtx |-> FALSE, ctx |-> BackgroundCtx]

\* variant: the context is set on the shared handle itself
WithContextInPlace(ctx, shared) ==
    [handle |-> [hasCtx |-> TRUE, ctx |-> ctx],
     shared |-> [hasCtx |-> TRUE, ctx |-> ctx]]

\* WithContext: db.New().Set(contextScopeKey, ctx) gives a new handle that
\* carries the context; the handle it was derived from stays as it is
WithContext(ctx, shared) ==
    [handle |-> [hasCtx |-> TRUE, ctx |-> ctx], shared |-> shared]

\* db.New() / WithContext(ctx, db): a handle for one operation, then gorm
\* builds the scope of the operation (table and statement)
ScopeOpen(s) ==
    /\ scopes[s].pc = "new"
    /\ \E withCtx \in BOOLEAN, ctx \in CallerCtxs, table \in Tables :
        LET derived == WithContext(ctx, db)
            handle == IF withCtx THEN derived.handle ELSE db
        IN  /\ scopes' = [scopes EXCEPT ![s] =
                  [NewScope EXCEPT !.pc = "open", !.table = table,
                                   !.sql = <<"sql", table>>,
                                   !.hasCtx = handle.hasCtx,
                                   !.ctx = handle.ctx,
                                   !.attached = withCtx,
                                   !.parentSpan = IF withCtx THEN ctx.span
                                                  ELSE "none"]]
            /\ db' = IF withCtx THEN derived.shared ELSE db
    /\ UNCHANGED <<httpVars, pollerVars, gcfg, queryCount>>

\* the two append calls of startTrace on a default slice with spare
\* capacity: the elements are written into the backing array the callbacks
\* instance holds, behind the default attributes
AppendInPlace(c, scope) ==
    [table |-> <<[key |-> TableAttribute, value |-> scope.table]>>,
     query |-> IF c.query
               THEN <<[key |-> QueryAttribute, value |-> scope.sql]>>
               ELSE c.backing.query]

\* what span.AddAttributes(attributes...) reads: a slice of the operation's
\* own when append had to allocate, else the default attributes and the
\* elements behind them in the shared backing array
AttributesRead(c, scope) ==
    IF c.spare
    THEN c.defaultAttributes \o c.backing.table
            \o (IF c.query THEN c.backing.query ELSE << >>)
    ELSE SpanAttributes(c, scope)

\* callbacks.before, registered for create, query, update and delete, up to
\* the attribute slice of startTrace; all of before when no span is started
Before(s) ==
    /\ scopes[s].pc = "open"
    /\ \E operation \in Ops :
        LET scope == [scopes[s] EXCEPT !.op = operation]
            ctx == IF scope.hasCtx THEN scope.ctx ELSE BackgroundCtx
            traced == StartTrace(gcfg, ctx, scope, operation)
            tagged == StartStats(traced.ctx, traced.scope, operation)
        IN  IF traced.scope.hasSpan
            THEN /\ scopes' = [scopes EXCEPT ![s] =
                        [traced.scope EXCEPT !.pc = "attrs", !.hasSpan = FALSE,
                                             !.span.attrs = << >>,
                                             !.traceCtx = traced.ctx]]
                 /\ gcfg' = IF gcfg.spare
                            THEN [gcfg EXCEPT !.backing = AppendInPlace(gcfg, scope)]
                            ELSE gcfg
            ELSE /\ scopes' = [scopes EXCEPT ![s] =
                        [traced.scope EXCEPT !.pc = "before", !.hasCtx = TRUE,
                                             !.ctx = tagged]]
                 /\ UNCHANGED gcfg
    /\ UNCHANGED <<httpVars, pollerVars, queryCount, db>>

\* the rest of before for an operation with a span: span.AddAttributes and
\* scope.Set of startTrace, then startStats and scope.Set of the context
AddAttributes(s) ==
    /\ scopes[s].pc = "attrs"
    /\ LET scope == scopes[s]
           tagged == StartStats(scope.traceCtx, scope, scope.op)
       IN  scopes' = [scopes EXCEPT ![s] =
               [scope EXCEPT !.pc = "before", !.hasSpan = TRUE,
                             !.span.attrs = AttributesRead(gcfg, scope),
                             !.hasCtx = TRUE, !.ctx = tagged]]
    /\ UNCHANGED <<httpVars, pollerVars, gcfg, queryCount, db>>

\* gorm runs the statement between the two callbacks
Execute(s) ==
    /\ scopes[s].pc = "before"
    /\ \E err \in OpErrors :
        scopes' = [scopes EXCEPT ![s].pc = "ran", ![s].err = err]
    /\ UNCHANGED <<httpVars, pollerVars, gcfg, queryCount, db>>

\* variant: span and context are kept in one slot shared by the operations
\* in progress instead of in the scope
AfterSharedSlot(s) ==
    /\ scopes[s].pc = "ran"
    /\ LET others == {t \in ScopeIds \ {s} : scopes[t].pc \in {"before", "ran"}}
           g == IF others = {} THEN s ELSE CHOOSE t \in others : TRUE
           ended == EndTrace(scopes[g])
           records == EndStatsRecords(scopes[s])
           tags == scopes[g].ctx.tags
       IN  /\ scopes' = [[scopes EXCEPT ![g].span = ended.span]
                            EXCEPT ![s].pc = "after",
                                   ![s].recorded = IF records THEN Append(@, tags) ELSE @]
           /\ queryCount' = IF records
                            THEN [queryCount EXCEPT ![tags] = @ + 1]
                            ELSE queryCount
    /\ UNCHANGED <<httpVars, pollerVars, gcfg, db>>

\* callbacks.after: endTrace, then endStats
After(s) ==
    /\ scopes[s].pc = "ran"
    /\ LET ended == EndTrace(scopes[s])
           records == EndStatsRecords(ended)
           tags == ended.ctx.tags
       IN  /\ scopes' = [scopes EXCEPT ![s] =
                   [ended EXCEPT !.pc = "after",
                                 !.recorded = IF records THEN Append(@, tags) ELSE @]]
           /\ queryCount' = IF records
                            THEN [queryCount EXCEPT ![tags] = @ + 1]
                            ELSE queryCount
    /\ UNCHANGED <<httpVars, pollerVars, gcfg, db>>

TagSets == [operation : Ops \cup {""}, table : Tables \cup {""}]

InitGorm ==
    /\ gcfg \in [allowRoot : BOOLEAN, query : BOOLEAN,
                 defaultAttributes : {<<[key |-> "service.name", value |-> "api"]>>},
                 spare : BOOLEAN, backing : {NoBacking}]
    /\ scopes = [s \in ScopeIds |-> NewScope]
    /\ queryCount = [t \in TagSets |-> 0]
    /\ db = NoValues

-----------------------------------------------------------------------------
(* pkg/ocgorm: RecordStats, the pool stats poller *)

Callers == {"main", "cleanup"}
PollerLive == poller.pc \in {"select", "tick"}

\* a panic nobody recovers in the polling goroutine ends the whole program
ProcessAlive ==
    /\ poller.pc # "panicked"
    /\ poller.setup \notin {"viewPanic", "tickerPanic"}

\* the intervals RecordStats is called with, in ticks of the clock
Intervals == {-1, 0, 1}

\* what view.Register returns: nil, or the error of a view that is already
\* registered under the same name with another definition
RegisterResults == {NoErr, "cannot register view: a different view with the same name is already registered"}

\* RegisterAllViews: view.Register(DefaultViews...), panic on its error
RegisterAllViews ==
    /\ poller.setup = "start"
    /\ \E err \in RegisterResults :
        poller' = [poller EXCEPT !.viewErr = err,
                                 !.setup = IF err # NoErr THEN "viewPanic"
                                           ELSE "registered"]
    /\ UNCHANGED <<httpVars, gormVars, ticker, done, closeOnce, stoppers, pool, gauges>>

\* variant: the ticker is created by the polling goroutine, so a bad
\* interval fails there and RecordStats returns a stop function
RecordStatsTickerInGoroutine ==
    /\ poller.setup = "registered"
    /\ \E interval \in Intervals :
        IF interval <= 0
        THEN /\ poller' = [poller EXCEPT !.interval = interval,
                                         !.setup = "recording",
                                         !.pc = "panicked"]
             /\ UNCHANGED ticker
        ELSE /\ poller' = [poller EXCEPT !.interval = interval,
                                         !.setup = "recording",
                                         !.pc = "select"]
             /\ ticker' = [pending |-> FALSE, stopped |-> FALSE, fired |-> 0]
    /\ UNCHANGED <<httpVars, gormVars, done, closeOnce, stoppers, pool, gauges>>

\* RecordStats up to its return: time.NewTicker(interval) in the var block
\* panics in the caller for a non-positive interval, before `go func()`;
\* otherwise the goroutine is started and the stop function is returned
RecordStats ==
    /\ poller.setup = "registered"
    /\ \E interval \in Intervals :
        IF interval <= 0
        THEN /\ poller' = [poller EXCEPT !.interval = interval,
                                         !.setup = "tickerPanic"]
             /\ UNCHANGED ticker
        ELSE /\ poller' = [poller EXCEPT !.interval = interval,
                                         !.setup = "recording",
                                         !.pc = "select"]
             /\ ticker' = [pending |-> FALSE, stopped |-> FALSE, fired |-> 0]
    /\ UNCHANGED <<httpVars, gormVars, done, closeOnce, stoppers, pool, gauges>>

\* variant: the stop function closes the channel without the Once
CloseUnguarded == TRUE

\* closeOnce.Do: whether the Once still runs the function it is given
CloseOnceFires == ~closeOnce.done

\* variant: the gauge view adds up what is recorded (view.Sum)
SumValue(old, new) == old + new

\* view.LastValue(), the aggregation of the pool views: the row holds the
\* value recorded last
LastValue(old, new) == new

\* the ticker delivers a tick into ticker.C (capacity one)
Tick ==
    /\ ProcessAlive
    /\ ~ticker.stopped
    /\ ~ticker.pending
    /\ ticker.fired < MaxTicks
    /\ ticker' = [ticker EXCEPT !.pending = TRUE, !.fired = @ + 1]
    /\ UNCHANGED <<httpVars, gormVars, poller, done, closeOnce, stoppers, pool, gauges>>

\* select takes the case <-ticker.C and reads db.DB().Stats()
PollTick ==
    /\ poller.pc = "select"
    /\ ticker.pending
    /\ ticker' = [ticker EXCEPT !.pending = FALSE]
    /\ poller' = [poller EXCEPT !.pc = "tick", !.dbStats = pool.open]
    /\ UNCHANGED <<httpVars, gormVars, done, closeOnce, stoppers, pool, gauges>>

\* what db.DB().Ping() returns: sql's closed error on a closed pool, else nil
\* or the driver's error
PingResults ==
    IF pool.closed THEN {"sql: database is closed"}
    ELSE {"<nil>", "dial tcp: connection refused"}

\* strings.Contains(err.Error(), "database is closed") on the errors above;
\* err.Error() on a nil error is a nil dereference
PingOutcome(err) ==
    CASE err = "<nil>" -> "panic"
      [] err = "sql: database is closed" -> "closed"
      [] OTHER -> "other"

\* the rest of the tick case: the probe when no connection is open, then
\* stats.Record of the snapshot
PollRecord ==
    /\ poller.pc = "tick"
    /\ \E err \in PingResults :
        LET outcome == IF poller.dbStats = 0 THEN PingOutcome(err) ELSE "skip"
        IN  CASE outcome = "closed" ->
                    /\ ticker' = [ticker EXCEPT !.stopped = TRUE]
                    /\ poller' = [poller EXCEPT !.pc = "exited"]
                    /\ UNCHANGED gauges
              [] outcome = "panic" ->
                    /\ poller' = [poller EXCEPT !.pc = "panicked"]
                    /\ UNCHANGED <<ticker, gauges>>
              [] OTHER ->
                    /\ gauges' = [gauges EXCEPT
                            !.open = LastValue(@, poller.dbStats),
                            !.emissions = @ + 1,
                            !.snapshots = Append(@, poller.dbStats)]
                    /\ poller' = [poller EXCEPT !.pc = "select"]
                    /\ UNCHANGED ticker
    /\ UNCHANGED <<httpVars, gormVars, done, closeOnce, stoppers, pool>>

\* select takes the case <-done: ticker.Stop(), return
PollDone ==
    /\ poller.pc = "select"
    /\ done.closed
    /\ ticker' = [ticker EXCEPT !.stopped = TRUE]
    /\ poller' = [poller EXCEPT !.pc = "exited"]
    /\ UNCHANGED <<httpVars, gormVars, done, closeOnce, stoppers, pool, gauges>>

\* fnStop is called: Once.Do reads its done flag
StopCall(c) ==
    /\ ProcessAlive
    /\ poller.setup = "recording"
    /\ stoppers[c].pc = "idle"
    /\ stoppers[c].calls < MaxStopCalls
    /\ stoppers' = [stoppers EXCEPT ![c] =
            IF CloseOnceFires THEN [@ EXCEPT !.pc = "doSlow"]
            ELSE [@ EXCEPT !.calls = @ + 1]]
    /\ UNCHANGED <<httpVars, gormVars, poller, ticker, done, closeOnce, pool, gauges>>

\* Once.doSlow takes the mutex
StopLock(c) ==
    /\ ProcessAlive
    /\ stoppers[c].pc = "doSlow"
    /\ closeOnce.m = "free"
    /\ closeOnce' = [closeOnce EXCEPT !.m = c]
    /\ stoppers' = [stoppers EXCEPT ![c].pc = "locked"]
    /\ UNCHANGED <<httpVars, gormVars, poller, ticker, done, pool, gauges>>

\* variant: the stop function sends on done instead of closing it, which
\* needs the polling goroutine to receive
StopRunSendsOnDone(c) ==
    /\ ProcessAlive
    /\ stoppers[c].pc = "locked"
    /\ IF CloseOnceFires
       THEN /\ poller.pc = "select"
            /\ done' = [closed |-> TRUE, closes |-> done.closes + 1,
                        panicked |-> done.panicked \/ done.closed,
                        pollerGone |-> FALSE]
       ELSE UNCHANGED done
    /\ closeOnce' = [done |-> TRUE, m |-> "free"]
    /\ stoppers' = [stoppers EXCEPT ![c].pc = "idle", ![c].calls = @ + 1]
    /\ UNCHANGED <<httpVars, gormVars, poller, ticker, pool, gauges>>

\* under the mutex: close(done) if the Once has not run yet; fnStop returns
StopRun(c) ==
    /\ ProcessAlive
    /\ stoppers[c].pc = "locked"
    /\ IF CloseOnceFires
       THEN done' = [closed |-> TRUE, closes |-> done.closes + 1,
                     panicked |-> done.panicked \/ done.closed,
                     pollerGone |-> poller.pc = "exited"]
       ELSE UNCHANGED done
    /\ closeOnce' = [done |-> TRUE, m |-> "free"]
    /\ stoppers' = [stoppers EXCEPT ![c].pc = "idle", ![c].calls = @ + 1]
    /\ UNCHANGED <<httpVars, gormVars, poller, ticker, pool, gauges>>

\* the pool opens or drops connections while the application runs
PoolChange ==
    /\ ProcessAlive
    /\ ~pool.closed
    /\ \E n \in 0..MaxOpen :
        /\ n # pool.open
        /\ pool' = [pool EXCEPT !.open = n]
    /\ UNCHANGED <<httpVars, gormVars, poller, ticker, done, closeOnce, stoppers, gauges>>

\* db.Close()
PoolClose ==
    /\ ProcessAlive
    /\ ~pool.closed
    /\ pool' = [open |-> 0, closed |-> TRUE]
    /\ UNCHANGED <<httpVars, gormVars, poller, ticker, done, closeOnce, stoppers, gauges>>

\* the program with a connection pool, before RegisterAllViews and
\* RecordStats are called: no polling goroutine, no ticker
InitPoller ==
    /\ poller = [pc |-> "none", dbStats |-> 0, setup |-> "start",
                 viewErr |-> NoErr, interval |-> 0]
    /\ ticker = [pending |-> FALSE, stopped |-> TRUE, fired |-> 0]
    /\ done = [closed |-> FALSE, closes |-> 0, panicked |-> FALSE,
            pollerGone |-> FALSE]
    /\ closeOnce = [done |-> FALSE, m |-> "free"]
    /\ stoppers = [c \in Callers |-> [pc |-> "idle", calls |-> 0]]
    /\ pool \in [open : 0..MaxOpen, closed : {FALSE}]
    /\ gauges = [open |-> 0, emissions |-> 0, snapshots |-> << >>]

-----------------------------------------------------------------------------
(* The components at rest, and the three specifications *)

IdleHTTP ==
    /\ load = [TraceMix EXCEPT !.requests = 0]
    /\ cfg = [isPublicEndpoint |-> FALSE, sampler |-> "default",
                        getStartOptions |-> FALSE]
    /\ req = [r \in Goroutines |-> IdleReq]
    /\ views = [requestCount |-> 0, latencyCount |-> 0, respCount |-> 0,
                respSum |-> 0, reqCount |-> 0, reqSum |-> 0]
    /\ hist = [served |-> 0, sumWritten |-> 0, sumReqSize |-> 0]
    /\ spanSeq = 0
    /\ router = RootRouter

IdleGorm ==
    /\ gcfg = [allowRoot |-> FALSE, query |-> FALSE, defaultAttributes |-> << >>,
               spare |-> FALSE, backing |-> NoBacking]
    /\ scopes = [s \in ScopeIds |-> NewScope]
    /\ queryCount = [t \in TagSets |-> 0]
    /\ db = NoValues

IdlePoller ==
    /\ poller = [pc |-> "none", dbStats |-> 0, setup |-> "start",
                 viewErr |-> NoErr, interval |-> 0]
    /\ ticker = [pending |-> FALSE, stopped |-> TRUE, fired |-> 0]
    /\ done = [closed |-> FALSE, closes |-> 0, panicked |-> FALSE,
            pollerGone |-> FALSE]
    /\ closeOnce = [done |-> FALSE, m |-> "free"]
    /\ stoppers = [c \in Callers |-> [pc |-> "idle", calls |-> 0]]
    /\ pool = [open |-> 0, closed |-> FALSE]
    /\ gauges = [open |-> 0, emissions |-> 0, snapshots |-> << >>]

Init ==
    /\ InitHTTP
    /\ IdleGorm
    /\ IdlePoller

Next ==
    \E r \in Goroutines :
        \/ HandlerFuncEnter(r)
        \/ ChainNext(r)
        \/ HandlerWriteHeader(r)
        \/ HandlerWrite(r)
        \/ HandlerAbort(r)
        \/ HandlerReturn(r)
        \/ HandlerPanic(r)
        \/ ChainReturn(r)
        \/ DeferStatsEnd(r)
        \/ DeferTraceEnd(r)
        \/ ExtraEnd(r)
        \/ RouterGroup
        \/ RouterHandle

Spec == Init /\ [][Next]_vars

GormInit ==
    /\ IdleHTTP
    /\ InitGorm
    /\ IdlePoller

GormNext ==
    \E s \in ScopeIds :
        \/ ScopeOpen(s)
        \/ Before(s)
        \/ AddAttributes(s)
        \/ Execute(s)
        \/ After(s)

SpecGorm == GormInit /\ [][GormNext]_vars

PollerInit ==
    /\ IdleHTTP
    /\ IdleGorm
    /\ InitPoller

PollerNext ==
    \/ RegisterAllViews
    \/ RecordStats
    \/ Tick
    \/ PollTick
    \/ PollRecord
    \/ PollDone
    \/ \E c \in Callers : StopCall(c) \/ StopLock(c) \/ StopRun(c)
    \/ PoolChange
    \/ PoolClose

SpecPoller == PollerInit /\ [][PollerNext]_vars

\* the operation a handler of the application runs on the database
AppScopes == {"op1"}

\* the application: a request is served by the middleware and its handler
\* calls the database through the callbacks
AppInit ==
    /\ InitHTTPUnder({AppMix})
    /\ InitGorm
    /\ IdlePoller

AppNext ==
    \/ \E r \in Goroutines :
        \/ HandlerFuncEnter(r)
        \/ ChainNext(r)
        \/ HandlerWriteHeader(r)
        \/ HandlerWrite(r)
        \/ HandlerAbort(r)
        \/ HandlerReturn(r)
        \/ HandlerPanic(r)
        \/ ChainReturn(r)
        \/ DeferStatsEnd(r)
        \/ DeferTraceEnd(r)
        \/ ExtraEnd(r)
    \/ \E s \in AppScopes :
        \/ ScopeOpen(s)
        \/ Before(s)
        \/ AddAttributes(s)
        \/ Execute(s)
        \/ After(s)

SpecApp == AppInit /\ [][AppNext]_vars

\* an engine whose routes use WithRouteTag without the middleware
BareInit ==
    /\ InitHTTPUnder({BareMix})
    /\ IdleGorm
    /\ IdlePoller

BareNext ==
    \E r \in Goroutines :
        \/ EngineDispatch(r)
        \/ ChainNext(r)
        \/ HandlerWriteHeader(r)
        \/ HandlerWrite(r)
        \/ HandlerAbort(r)
        \/ HandlerReturn(r)
        \/ HandlerPanic(r)
        \/ ChainReturn(r)

SpecBare == BareInit /\ [][BareNext]_vars

-----------------------------------------------------------------------------
(* Properties of the HTTP middleware (Spec) *)

HealthPaths == {"/healthz", "/_ah/health", "/metrics"}
NoneInFlight == \A r \in Goroutines : ~InFlight(r)

\* C1: on every exit path of the chain (return, abort, panic) the body of
\* trackingResponseWriter.end runs exactly once and the request's span is
\* ended exactly once; further calls of end emit nothing more.
C1_CompletionExactlyOnce ==
    \A r \in Goroutines :
        LET q == req[r]
        IN  /\ Len(q.emitted) <= 1
            /\ q.span.ends <= 1
            /\ q.pc \in {"deferTrace", "done"} => Len(q.emitted) = 1
            /\ q.pc = "done" =>
                  /\ q.span.exists => q.span.ends = 1
                  /\ q.path \notin HealthPaths => q.span.exists

\* a request that panicked, is done, and had end triggered once more
C1_Witness ==
    \E r \in Goroutines :
        /\ req[r].pc = "done"
        /\ req[r].panicking
        /\ req[r].extraEnds >= 1
        /\ Len(req[r].emitted) = 1
        /\ req[r].span.ends = 1

\* C2: a request to /healthz, /_ah/health or /metrics never gets a span,
\* whatever the sampler: no span is started or ended, and the downstream
\* handler finds none in the request context.
C2_HealthPathsNeverTraced ==
    \A r \in Goroutines :
        (req[r].pc # "idle" /\ req[r].path \in HealthPaths) =>
            /\ ~req[r].span.exists
            /\ req[r].span.ends = 0
            /\ ~req[r].ctxSpan
            /\ ~req[r].seenSpan

\* /metrics served to the end under the always-sample configuration
C2_Witness ==
    \E r \in Goroutines :
        /\ req[r].pc = "done"
        /\ req[r].path = "/metrics"
        /\ cfg.sampler = "always"
        /\ req[r].invoked # {}
        /\ ~req[r].seenSpan

\* C3: with a valid inbound trace context the span has it as remote parent
\* (same trace) when IsPublicEndpoint is false, and is a new trace with
\* exactly one link to it when IsPublicEndpoint is true; without a valid
\* inbound context the span is a new root without link.
C3_ParentOrLink ==
    \A r \in Goroutines :
        (req[r].pc # "idle" /\ req[r].path \notin HealthPaths) =>
            LET span == req[r].span
                sc == req[r].inbound
                newRoot == /\ ~span.remoteParent
                           /\ span.parent = NoSC
                           /\ span.traceId[1] = "gen"
            IN  /\ span.exists
                /\ (sc.ok /\ ~cfg.isPublicEndpoint) =>
                      /\ span.remoteParent
                      /\ span.parent = sc
                      /\ span.traceId = sc.traceId
                      /\ span.links = << >>
                /\ (sc.ok /\ cfg.isPublicEndpoint) =>
                      /\ newRoot
                      /\ span.traceId # sc.traceId
                      /\ span.links = <<sc>>
                /\ ~sc.ok => (newRoot /\ span.links = << >>)

\* a public endpoint that got a valid inbound context and linked it
C3_Witness ==
    \E r \in Goroutines :
        /\ req[r].pc = "chain"
        /\ req[r].inbound.ok
        /\ cfg.isPublicEndpoint
        /\ Len(req[r].span.links) = 1

\* C9: after N served requests every aggregation (request count, latency,
\* request bytes, response bytes) has count N, the response-bytes sum is
\* the sum of the bytes written and the request-bytes sum is the sum of the
\* request sizes.
C9_AggregatesMatchRequests ==
    NoneInFlight =>
        /\ views.requestCount = hist.served
        /\ views.latencyCount = hist.served
        /\ views.respCount = hist.served
        /\ views.reqCount = hist.served
        /\ views.respSum = hist.sumWritten
        /\ views.reqSum = hist.sumReqSize

\* C10: the completion measurement of a request that a WithRouteTag handler
\* served carries that handler's route as its route tag.
C10_MeasurementCarriesRoute ==
    \A r \in Goroutines :
        \A route \in req[r].invoked \ {NoRoute} :
            \A i \in 1..Len(req[r].emitted) :
                req[r].emitted[i].route = route

IsRouteTag(h) == h # NoRoute

\* the route tags of the handlers of the chain that have returned
ReturnedTags(q) == SelectSeq(SubSeq(q.handlers, 1, q.idx - 1), IsRouteTag)

\* C11: the tag set the completion handler emits holds every tag contributed
\* by a stage of the chain that returned, and nothing is appended to the
\* accumulator after the completion handler has read it.
C11_TagsAppliedBeforeEnd ==
    \A r \in Goroutines :
        Len(req[r].emitted) >= 1 =>
            /\ req[r].emitted[1].tags = ReturnedTags(req[r])
            /\ req[r].emitted[1].tags = req[r].tags

\* two tag-contributing handlers returned before the measurement was emitted
C11_Witness ==
    \E r \in Goroutines :
        /\ req[r].pc = "done"
        /\ ~req[r].panicking
        /\ Len(req[r].emitted) = 1
        /\ Len(req[r].emitted[1].tags) >= 2

\* the span status the test table expects for a status code
ExpectedSpanStatus(code) ==
    CASE code = 401 -> "UNAUTHENTICATED"
      [] code = 403 -> "PERMISSION_DENIED"
      [] code = 429 -> "RESOURCE_EXHAUSTED"
      [] code = 500 -> "UNKNOWN"
      [] code \in {200, 204} -> "OK"

\* C12: at completion the span status is the one the final HTTP status code
\* maps to (200 when the chain never set one), and the measurement's
\* status-code tag is that same code.
C12_StatusFromFinalCode ==
    \A r \in Goroutines :
        Len(req[r].emitted) >= 1 =>
            LET code == IF req[r].statusSet THEN req[r].wStatus ELSE 200
            IN  /\ req[r].emitted[1].status = code
                /\ req[r].trackSpan =>
                      /\ req[r].span.status = ExpectedSpanStatus(code)
                      /\ req[r].span.statusAttr = code

\* a traced request whose chain answered 403
C12_Witness ==
    \E r \in Goroutines :
        /\ req[r].pc = "done"
        /\ req[r].trackSpan
        /\ req[r].wStatus = 403
        /\ req[r].span.status = "PERMISSION_DENIED"
        /\ req[r].emitted[1].status = 403

\* C13: on every exit path the span's status and status-code attribute are
\* set before the span is ended.
C13_StatusSetBeforeSpanEnd ==
    \A r \in Goroutines :
        req[r].span.ends >= 1 =>
            /\ req[r].onceDone
            /\ req[r].span.status # "unset"
            /\ req[r].span.statusAttr = req[r].wStatus

\* a span ended while a panic unwinds, carrying the status of a 500
C13_Witness ==
    \E r \in Goroutines :
        /\ req[r].panicking
        /\ req[r].span.ends = 1
        /\ req[r].wStatus = 500
        /\ req[r].span.status = "UNKNOWN"

\* C14: every measurement of a request, the request count included, carries
\* the accumulated tags and the status-code tag of the completion.
C14_RequestCountCarriesTags ==
    \A r \in Goroutines :
        req[r].pc = "done" =>
            \A i \in 1..Len(req[r].counted) :
                /\ req[r].counted[i].hasStatus
                /\ req[r].counted[i].status = req[r].emitted[1].status
                /\ req[r].counted[i].route = req[r].emitted[1].route

\* C15: a request whose body size is undetermined (nil body, or a negative
\* content length) emits no request-size measurement.
C15_UnknownSizeNeverRecorded ==
    \A r \in Goroutines :
        (req[r].body.nil \/ req[r].body.contentLength < 0) =>
            \A i \in 1..Len(req[r].emitted) : ~req[r].emitted[i].hasReqBytes

\* C16: while the handler wrapped by WithRouteTag runs, its route tag is
\* already in the request's tag accumulator.
C16_RouteTagBeforeHandler ==
    \A r \in Goroutines :
        (req[r].pc = "handler" /\ req[r].handlers[req[r].idx] # NoRoute) =>
            \E i \in 1..Len(req[r].tags) :
                req[r].tags[i] = req[r].handlers[req[r].idx]

\* C17: the route tag contributed for a route registered on a traced router
\* group is the group's base path joined with the route's relative path.
C17_ComposedRouteName ==
    \A r \in Goroutines :
        load.traced =>
            \A i \in 1..Len(req[r].tags) :
                req[r].tags[i] = JoinPaths(router.base, router.rel)

\* C18: for a chain wrapped by AllWithRouteTag(route, ...) of which at least
\* one handler ran, the emitted route tag is route, however many handlers
\* the chain has and whichever of them ran.
C18_ChainTagIdempotent ==
    \A r \in Goroutines :
        LET q == req[r]
        IN  (/\ Len(q.emitted) >= 1
             /\ q.invoked # {}
             /\ \A i \in 1..Len(q.handlers) : q.handlers[i] = q.handlers[1]
             /\ q.handlers[1] # NoRoute) =>
                q.emitted[1].route = q.handlers[1]

\* C25: the sampler of a request's span is the one GetStartOptions returned
\* for that request whenever GetStartOptions is set, whatever the static
\* StartOptions say; the static sampler is used only when it is nil.
C25_SamplerFromGetStartOptions ==
    \A r \in Goroutines :
        req[r].span.exists =>
            /\ cfg.getStartOptions =>
                  /\ req[r].startOpts \in Samplers
                  /\ req[r].span.sampler = req[r].startOpts
            /\ ~cfg.getStartOptions =>
                  /\ req[r].startOpts = NoStartOptions
                  /\ req[r].span.sampler = cfg.sampler

\* the static options say always, GetStartOptions returned never for the
\* request, and the span was started with never
C25_Witness ==
    \E r \in Goroutines :
        /\ req[r].pc = "done"
        /\ cfg.getStartOptions
        /\ cfg.sampler = "always"
        /\ req[r].startOpts = "never"
        /\ req[r].span.sampler = "never"

\* C27: a request to a health or metrics path gets no span but exactly one
\* completion measurement: the completion handler runs to its end although
\* its context holds no span, and sets no span status.
C27_HealthMeasuredNotTraced ==
    \A r \in Goroutines :
        (req[r].pc # "idle" /\ req[r].path \in HealthPaths) =>
            /\ ~req[r].span.exists
            /\ ~req[r].trackSpan
            /\ req[r].span.status = "unset"
            /\ Len(req[r].counted) = 1
            /\ req[r].pc \in {"chain", "handler", "deferStats"} =>
                  req[r].emitted = << >>
            /\ req[r].pc \in {"deferTrace", "done"} =>
                  /\ req[r].onceDone
                  /\ Len(req[r].emitted) = 1
                  /\ req[r].emitted[1].status =
                        (IF req[r].statusSet THEN req[r].wStatus ELSE 200)

\* /_ah/health answered 204 and served to the end: one measurement, no span
C27_Witness ==
    \E r \in Goroutines :
        /\ req[r].pc = "done"
        /\ req[r].path = "/_ah/health"
        /\ ~req[r].panicking
        /\ ~req[r].span.exists
        /\ Len(req[r].emitted) = 1
        /\ req[r].emitted[1].status = 204

\* C29: with requests handled at the same time, the measurement of a
\* request holds the tags of that request's own handlers only, and the
\* status, size and start it reports are those of that request's tracker.
C29_PerRequestIsolation ==
    /\ \A r \in Goroutines :
          Len(req[r].emitted) >= 1 =>
              LET m == req[r].emitted[1]
              IN  /\ m.tags = ReturnedTags(req[r])
                  /\ m.status = (IF req[r].statusSet THEN req[r].wStatus ELSE 200)
                  /\ m.respBytes = req[r].wSize
                  /\ m.start = req[r].start
    /\ \A r, g \in Goroutines :
          (r # g /\ req[r].pc # "idle" /\ req[g].pc # "idle") =>
              req[r].start # req[g].start

\* request a is still in flight with a tag in its accumulator when request b,
\* on another route and with another status and size, emits its measurement
C29_Witness ==
    \E a, b \in Goroutines :
        /\ a # b
        /\ req[a].pc = "chain"
        /\ req[a].tags # << >>
        /\ req[b].pc = "deferTrace"
        /\ Len(req[b].emitted) = 1
        /\ req[b].emitted[1].tags # << >>
        /\ req[b].emitted[1].tags # req[a].tags
        /\ req[b].emitted[1].status # req[a].wStatus
        /\ req[b].emitted[1].respBytes # req[a].wSize

\* C30: while the chain of a request to another than a health path runs,
\* the request context carries the span started for the request and the
\* request's tag accumulator; that span is the one the stats completion sets
\* the status of, and the one ended when HandlerFunc returns.
C30_ContextCarriesSpanAndAccumulator ==
    \A r \in Goroutines :
        (req[r].pc # "idle" /\ req[r].path \notin HealthPaths) =>
            /\ req[r].span.exists
            /\ req[r].ctxSpan /\ req[r].ctxAcc
            /\ req[r].trackSpan
            /\ req[r].pc \in {"chain", "handler", "deferStats"} =>
                  /\ req[r].span.ends = 0
                  /\ req[r].span.status = "unset"
            /\ req[r].pc \in {"deferTrace", "done"} =>
                  req[r].span.status # "unset"
            /\ req[r].pc = "deferTrace" => req[r].span.ends = 0
            /\ req[r].pc = "done" => req[r].span.ends = 1

\* a tagged handler saw the span in its context and contributed its tag;
\* the span got the status of the answer and was ended
C30_Witness ==
    \E r \in Goroutines :
        /\ req[r].pc = "done"
        /\ req[r].seenSpan
        /\ req[r].tags # << >>
        /\ req[r].span.status = "UNKNOWN"
        /\ req[r].span.ends = 1

\* C33: the response size measured at completion is the number of bytes
\* the chain wrote through the tracking writer, and is 0, never negative,
\* when the chain wrote a status code only or nothing at all.
C33_ResponseSizeIsBytesWritten ==
    \A r \in Goroutines :
        Len(req[r].emitted) >= 1 =>
            /\ req[r].emitted[1].respBytes = req[r].written
            /\ req[r].emitted[1].respBytes >= 0

-----------------------------------------------------------------------------
(* Properties of the data-access callbacks (SpecGorm) *)

\* C7: an operation that ended with an error has its span set to NOT_FOUND
\* for record-not-found and to UNKNOWN for any other error, the error text
\* as message, and records no query count.
C7_ErrorStatusAndNoCount ==
    \A s \in ScopeIds :
        (scopes[s].pc = "after" /\ scopes[s].err # NoErr) =>
            /\ scopes[s].recorded = << >>
            /\ scopes[s].hasSpan =>
                  /\ scopes[s].span.status =
                        [code |-> IF scopes[s].err = "record not found"
                                  THEN "NOT_FOUND" ELSE "UNKNOWN",
                         message |-> scopes[s].err]
                  /\ scopes[s].span.ends = 1

\* a traced operation that ended with record-not-found
C7_Witness ==
    \E s \in ScopeIds :
        /\ scopes[s].pc = "after"
        /\ scopes[s].err = "record not found"
        /\ scopes[s].hasSpan
        /\ scopes[s].span.status.code = "NOT_FOUND"

\* C8: an operation that completed without error has span status OK and
\* added exactly one to the query counter, under the operation and table
\* tags of its own before().
C8_SuccessCountsOnce ==
    /\ \A s \in ScopeIds :
          (scopes[s].pc = "after" /\ scopes[s].err = NoErr) =>
              /\ scopes[s].recorded =
                    <<[operation |-> scopes[s].op, table |-> scopes[s].table]>>
              /\ scopes[s].hasSpan =>
                    /\ scopes[s].span.status = [code |-> "OK", message |-> ""]
                    /\ scopes[s].span.ends = 1
    /\ \A t \in TagSets :
          queryCount[t] =
              Cardinality({s \in ScopeIds :
                              /\ scopes[s].pc = "after"
                              /\ scopes[s].err = NoErr
                              /\ scopes[s].op = t.operation
                              /\ scopes[s].table = t.table})

\* two successful operations of the same kind on the same table
C8_Witness ==
    /\ \A s \in ScopeIds :
          /\ scopes[s].pc = "after"
          /\ scopes[s].err = NoErr
          /\ scopes[s].op = "query"
          /\ scopes[s].table = "people"
    /\ \E s \in ScopeIds : scopes[s].hasSpan
    /\ queryCount[[operation |-> "query", table |-> "people"]] = 2

Started(s) == scopes[s].pc \in {"before", "ran", "after"}

\* C19: before() starts a span exactly when the operation's context carries
\* a parent span or allowRoot is set; without either the scope holds no span
\* and after() ends none; with a parent the new span is its child.
C19_SpanIffParentOrAllowRoot ==
    \A s \in ScopeIds :
        Started(s) =>
            LET sc == scopes[s]
                hasParent == sc.parentSpan # "none"
            IN  /\ sc.hasSpan <=> (hasParent \/ gcfg.allowRoot)
                /\ sc.hasSpan <=> sc.span.exists
                /\ ~sc.hasSpan => sc.span.ends = 0
                /\ hasParent => sc.span.parent = sc.parentSpan
                /\ (sc.hasSpan /\ ~hasParent) => sc.span.parent = "none"

\* without allowRoot: one operation finished without a span, the other is
\* the child of the request's span
C19_Witness ==
    /\ ~gcfg.allowRoot
    /\ \E s \in ScopeIds :
          /\ scopes[s].pc = "after"
          /\ scopes[s].parentSpan = "none"
          /\ ~scopes[s].hasSpan
    /\ \E s \in ScopeIds :
          /\ Started(s)
          /\ scopes[s].span.parent = "request"

\* C20: with operations interleaving on distinct scopes, after(scope) ends
\* the span before(scope) started on that scope, exactly once, and records
\* the counter under that scope's own operation and table tags.
C20_ScopeLocalCorrelation ==
    \A s \in ScopeIds :
        LET sc == scopes[s]
        IN  /\ sc.span.ends = (IF sc.hasSpan /\ sc.pc = "after" THEN 1 ELSE 0)
            /\ sc.hasSpan => sc.span.name = <<"gorm", sc.op>>
            /\ sc.pc # "after" => sc.recorded = << >>
            /\ Len(sc.recorded) <= 1
            /\ \A i \in 1..Len(sc.recorded) :
                  sc.recorded[i] = [operation |-> sc.op, table |-> sc.table]

\* one operation finished while a different one on another table is still
\* between its before() and after()
C20_Witness ==
    \E s, t \in ScopeIds :
        /\ scopes[s].pc = "after"
        /\ scopes[s].hasSpan
        /\ scopes[s].span.ends = 1
        /\ Len(scopes[s].recorded) = 1
        /\ scopes[t].pc = "ran"
        /\ scopes[t].hasSpan
        /\ scopes[t].span.ends = 0
        /\ scopes[t].op # scopes[s].op
        /\ scopes[t].table # scopes[s].table

\* the attributes of a span that carry the query text
QueryTexts(span) ==
    {i \in 1..Len(span.attrs) : span.attrs[i].key = QueryAttribute}

\* C21: a data-access span carries the query text only when the query
\* option is set; with the option off no span of any operation kind has a
\* query attribute, with it on the span has one.
C21_QueryTextOnlyOnOptIn ==
    \A s \in ScopeIds :
        LET sc == scopes[s]
        IN  sc.hasSpan =>
              /\ ~gcfg.query => QueryTexts(sc.span) = {}
              /\ gcfg.query => Cardinality(QueryTexts(sc.span)) = 1

\* with the option off, two operations of different kinds have finished
\* with a span each, and neither span has the query text
C21_Witness ==
    /\ ~gcfg.query
    /\ \E s, t \in ScopeIds :
          /\ scopes[s].pc = "after" /\ scopes[t].pc = "after"
          /\ scopes[s].hasSpan /\ scopes[t].hasSpan
          /\ scopes[s].op = "query" /\ scopes[t].op = "create"
          /\ QueryTexts(scopes[s].span) = {}
          /\ QueryTexts(scopes[t].span) = {}

\* C22: every span the callbacks start has span kind client, as a root
\* span and as the child of a parent span alike.
C22_EverySpanIsClient ==
    \A s \in ScopeIds :
        scopes[s].hasSpan => scopes[s].span.kind = "client"

\* C31: with operations running before() at the same time on one callbacks
\* instance, every span gets the default attributes and the table (and
\* query) attribute of its own scope, and nothing is written into the
\* configured default attribute slice.
C31_OwnAttributesOnly ==
    /\ \A s \in ScopeIds :
          scopes[s].hasSpan =>
              scopes[s].span.attrs = SpanAttributes(gcfg, scopes[s])
    /\ gcfg.backing = NoBacking

\* C36: the statistics of an operation do not depend on tracing: when no
\* span is started (no parent span and allowRoot off, or no context attached
\* at all) an operation that succeeds still counts exactly once, under its
\* operation and table tags.
C36_StatsWithoutTracing ==
    \A s \in ScopeIds :
        LET sc == scopes[s]
        IN  (Started(s) /\ ~sc.hasSpan) =>
              /\ sc.parentSpan = "none" /\ ~gcfg.allowRoot
              /\ sc.ctx.tags = [operation |-> sc.op, table |-> sc.table]
              /\ (sc.pc = "after" /\ sc.err = NoErr) =>
                    sc.recorded = <<[operation |-> sc.op, table |-> sc.table]>>
              /\ sc.pc # "after" => sc.recorded = << >>

\* two operations without a span have succeeded and counted: one had no
\* context attached, the other a context without a span
C36_Witness ==
    \E s, t \in ScopeIds :
        /\ scopes[s].pc = "after" /\ scopes[t].pc = "after"
        /\ ~scopes[s].hasSpan /\ ~scopes[t].hasSpan
        /\ ~scopes[s].attached /\ scopes[t].attached
        /\ Len(scopes[s].recorded) = 1 /\ Len(scopes[t].recorded) = 1
        /\ queryCount[scopes[s].recorded[1]] >= 1
        /\ queryCount[scopes[t].recorded[1]] >= 1

\* C35: WithContext returns a new handle that carries the context and leaves
\* the shared handle as it is: an operation sees the context attached for
\* it and no other; one issued through the shared handle sees none.
C35_ContextStaysOnDerivedHandle ==
    /\ db = NoValues
    /\ \A s \in ScopeIds :
          LET sc == scopes[s]
          IN  /\ sc.pc = "open" =>
                    /\ sc.hasCtx = sc.attached
                    /\ sc.ctx.span = sc.parentSpan
                    /\ sc.ctx.tags = NoTags
              /\ sc.span.exists => sc.span.parent = sc.parentSpan

\* an operation with the request's context attached has started a child
\* span of the request while an operation through the shared handle is about
\* to run before() without a context
C35_Witness ==
    \E s, t \in ScopeIds :
        /\ scopes[s].attached
        /\ scopes[s].parentSpan = "request"
        /\ scopes[s].hasSpan
        /\ scopes[s].span.parent = "request"
        /\ scopes[t].pc = "open"
        /\ ~scopes[t].attached
        /\ ~scopes[t].hasCtx

-----------------------------------------------------------------------------
(* Properties of the pool stats poller (SpecPoller) *)

StopReturned == \E c \in Callers : stoppers[c].calls > 0

\* C4: however often and from however many goroutines the stop function is
\* called, the done channel is closed exactly once and never closed twice.
C4_StopClosesOnce ==
    /\ done.closes <= 1
    /\ ~done.panicked
    /\ StopReturned => (done.closed /\ done.closes = 1)

\* a second caller holds the Once's mutex after the first closed the channel
C4_Witness ==
    /\ done.closes = 1
    /\ \E c \in Callers : stoppers[c].pc = "locked" /\ closeOnce.done
    /\ \E c \in Callers : stoppers[c].calls >= 1

\* C5: once the stop function has returned, no further pool measurement is
\* recorded.
C5_NoEmissionAfterStop ==
    [][StopReturned => gauges'.emissions = gauges.emissions]_vars

\* C6: after the stop function was called and has returned, the polling
\* goroutine ends only by returning, with the ticker stopped.
C6_StoppedPollerReleasesTicker ==
    (StopReturned /\ ~PollerLive) => (poller.pc = "exited" /\ ticker.stopped)
\* C23: on a tick the poller stops itself only when no connection is open
\* and the probe fails with the closed condition; in every other case (open
\* connections, a probe that succeeds, a probe failing otherwise) it emits
\* the snapshot and keeps polling, without crashing.
C23_StopsOnlyOnClosedPool ==
    /\ poller.pc # "panicked"
    /\ (poller.pc = "exited" /\ ~done.closed) =>
            (pool.closed /\ poller.dbStats = 0)

\* C24: the pool statistics are last-value gauges: after any sequence of
\* ticks the gauge holds the counter of the snapshot emitted last, whatever
\* was emitted before it.
C24_GaugeIsLastSnapshot ==
    /\ gauges.emissions = Len(gauges.snapshots)
    /\ gauges.snapshots # << >> =>
            gauges.open = gauges.snapshots[Len(gauges.snapshots)]

\* two snapshots with different counters were emitted and the gauge holds
\* the later one
C24_Witness ==
    LET n == Len(gauges.snapshots)
    IN  /\ n >= 2
        /\ gauges.snapshots[n - 1] > gauges.snapshots[n]
        /\ gauges.open = gauges.snapshots[n]

\* RecordStats has been called
RecordStatsCalled == poller.setup \in {"recording", "tickerPanic"}

\* C28: configuration errors are fatal at setup: RegisterAllViews panics
\* when the registration of the views returns an error, and RecordStats
\* with a non-positive interval fails in the calling goroutine without a
\* polling goroutine ever being started.
C28_ConfigurationErrorsFatal ==
    /\ poller.viewErr # NoErr => poller.setup = "viewPanic"
    /\ (RecordStatsCalled /\ poller.interval <= 0) =>
            poller.setup = "tickerPanic"
    /\ poller.setup \in {"viewPanic", "tickerPanic"} =>
            /\ poller.pc = "none"
            /\ ticker.stopped /\ ticker.fired = 0
            /\ gauges.emissions = 0
            /\ \A c \in Callers : stoppers[c] = [pc |-> "idle", calls |-> 0]

\* the views were registered and RecordStats was then called with a zero
\* interval: the caller has panicked and nothing polls
C28_Witness ==
    /\ poller.setup = "tickerPanic"
    /\ poller.viewErr = NoErr
    /\ poller.interval = 0
    /\ poller.pc = "none"

\* C32: once the polling goroutine has exited (by itself on a closed pool,
\* or after an earlier stop) a call of the stop function still runs to its
\* return: no step of it waits for the goroutine, and it does not panic.
C32_StopAfterExit ==
    poller.pc = "exited" =>
        /\ ~done.panicked
        /\ \A c \in Callers :
              /\ (stoppers[c].pc = "idle" /\ stoppers[c].calls < MaxStopCalls) =>
                    ENABLED StopCall(c)
              /\ stoppers[c].pc = "doSlow" =>
                    \/ ENABLED StopLock(c)
                    \/ \E d \in Callers \ {c} : stoppers[d].pc = "locked"
              /\ stoppers[c].pc = "locked" => ENABLED StopRun(c)

\* the poller stopped itself on the closed pool; the stop function, called
\* afterwards, closed the channel and returned, and was called once more
C32_Witness ==
    /\ poller.pc = "exited"
    /\ pool.closed
    /\ done.closed /\ done.pollerGone
    /\ ~done.panicked
    /\ \E c \in Callers : stoppers[c].calls >= 2 /\ stoppers[c].pc = "idle"

-----------------------------------------------------------------------------
(* Properties of the application as a whole (SpecApp) *)

-----------------------------------------------------------------------------
(* Properties of the route tag propagator without the middleware (SpecBare) *)

\* C34: a handler WithRouteTag produced that runs without the middleware
\* finds no accumulator in the request context: it still calls the wrapped
\* handler exactly once, appends to no accumulator and completes, so that the
\* chain goes on with the next handler.
C34_TaggedHandlerWithoutMiddleware ==
    \A r \in Goroutines :
        LET q == req[r]
        IN  q.pc # "idle" =>
              /\ ~q.ctxAcc
              /\ q.tags = << >>
              /\ q.emitted = << >> /\ q.counted = << >>
              /\ q.pc = "handler" => q.calls = q.idx
              /\ q.pc = "chain" => q.calls = q.idx - 1
              /\ (q.pc = "served" /\ ~q.panicking) => q.calls = q.idx - 1
              /\ (q.pc = "served" /\ ~q.panicking /\ ~q.aborted) =>
                    q.calls = Len(q.handlers)

\* a chain of two tagged handlers was served to its end: each wrapped
\* handler ran once and the answer is the one they wrote
C34_Witness ==
    \E r \in Goroutines :
        /\ req[r].pc = "served"
        /\ ~req[r].panicking
        /\ Len(req[r].handlers) = 2
        /\ \A i \in 1..2 : req[r].handlers[i] # NoRoute
        /\ req[r].calls = 2
        /\ req[r].wStatus = 204
        /\ req[r].tags = << >>

=============================================================================
